---- MODULE Spec2Model ----
(***************************************************************************)
(* Audiobook generator: the LangGraph workflow parse -> split -> tts of    *)
(* agents/audiobook_agent.py, the regex chapter splitter of                *)
(* modules/splitter/chapter_splitter.py and the per-chapter synthesis loop.*)
(*                                                                         *)
(* Python strings are sequences of one-character strings.  Optional values *)
(* are tagged records (None / Str(s)), so that None and "" stay distinct.  *)
(* The Book is one heap object (variable book); state.book refers to it.   *)
(***************************************************************************)
EXTENDS Integers, Sequences, FiniteSets, TLC

\* Longest text the PDF reader extracts, in characters.
MaxLen == 6

\* The largest number of chapters of a book a destination is derived for.
MaxNumber == 101

\* Characters of extracted text: a heading letter, a body letter, a line break.
Alphabet == {"H", "a", "\n"}

\* str.strip() with no argument removes these.
Whitespace == {" ", "\n", "\t"}

None == [none |-> TRUE]

Str(s) == [none |-> FALSE, s |-> s]

\* Python truthiness of an Optional[str]: None and "" are falsy.
Truthy(v) == (~v.none) /\ Len(v.s) > 0

RECURSIVE LStrip(_)
LStrip(s) ==
    IF s = <<>> THEN s
    ELSE IF Head(s) \in Whitespace THEN LStrip(Tail(s)) ELSE s

RECURSIVE RStrip(_)
RStrip(s) ==
    IF s = <<>> THEN s
    ELSE IF s[Len(s)] \in Whitespace THEN RStrip(SubSeq(s, 1, Len(s) - 1)) ELSE s

\* str.strip()
Strip(s) == RStrip(LStrip(s))

\* Every exception the collaborators raise here derives from Exception.
ExceptionTypes ==
    {"FileNotFoundError", "ValueError", "PdfReadError", "re.error",
     "AttributeError", "OSError", "RuntimeError"}

\* isinstance(exc, cls) for the classes named in except clauses.
IsInstance(exc, cls) ==
    \/ exc = cls
    \/ cls = "Exception" /\ exc \in ExceptionTypes
    \/ cls = "OSError" /\ exc = "FileNotFoundError"

(***************************************************************************)
(* Configuration and initial state (cli/main.py)                           *)
(***************************************************************************)

\* Chapter patterns: an optional ^ anchor and a literal, or a pattern that
\* re cannot compile.
Patterns ==
    { [valid |-> TRUE,  anchored |-> TRUE,  lit |-> <<"H">>],
      [valid |-> TRUE,  anchored |-> FALSE, lit |-> <<"h">>],
      [valid |-> TRUE,  anchored |-> FALSE, lit |-> <<"\n", "H">>],
      [valid |-> FALSE, anchored |-> FALSE, lit |-> <<>>] }

Formats == {"mp3", "wav"}

AudiobookConfig ==
    { [pattern |-> p, format |-> f] : p \in Patterns, f \in Formats }

initial_state(config) ==
    [book_path |-> "book.pdf",
     book |-> None,
     config |-> config,
     output_dir |-> "out",
     error |-> None]

(***************************************************************************)
(* PDFParser.parse                                                         *)
(***************************************************************************)

TextsUpTo(n) == UNION { [1..k -> Alphabet] : k \in 0..n }

\* What the page loop accumulates: "" for a PDF without pages, else the
\* pages' text followed by a line break.
Extracted == {<<>>} \cup { t \o <<"\n">> : t \in TextsUpTo(MaxLen) }

Files ==
    { [exists |-> FALSE, pdf |-> TRUE, readable |-> TRUE, extracted |-> <<>>],
      [exists |-> TRUE, pdf |-> FALSE, readable |-> TRUE, extracted |-> <<>>],
      [exists |-> TRUE, pdf |-> TRUE, readable |-> FALSE, extracted |-> <<>>] }
    \cup
    { [exists |-> TRUE, pdf |-> TRUE, readable |-> TRUE, extracted |-> e] :
        e \in Extracted }

NoBook ==
    [alloc |-> FALSE, title |-> "", author |-> None, raw_text |-> <<>>,
     chapters |-> <<>>]

Book(title, raw_text) ==
    [alloc |-> TRUE, title |-> title, author |-> None, raw_text |-> raw_text,
     chapters |-> <<>>]

PDFParser_parse(file) ==
    IF ~file.exists THEN [exc |-> "FileNotFoundError", book |-> NoBook]
    ELSE IF ~file.pdf THEN [exc |-> "ValueError", book |-> NoBook]
    ELSE IF ~file.readable THEN [exc |-> "PdfReadError", book |-> NoBook]
    ELSE [exc |-> "None", book |-> Book("Book", Strip(file.extracted))]

(***************************************************************************)
(* AudiobookAgent.parse_node and route_after_step                          *)
(***************************************************************************)

\* A reference to the one Book object of the run.
BookRef == [none |-> FALSE, ref |-> "book"]

\* str.startswith on an error string whose first token is its severity word.
StartsWith(v, prefix) == Len(v.s) >= 1 /\ v.s[1] = prefix

\* route_after_step without the fatal test: every edge continues.
route_after_step_never_ends(state) == "continue"

route_after_step(state) ==
    IF Truthy(state.error) /\ StartsWith(state.error, "fatal")
    THEN "end" ELSE "continue"

\* parse_node's try block returning without "book": book in the success case.
parse_node_try_drop_book(state, file) ==
    LET r == PDFParser_parse(file) IN
    IF r.exc # "None" THEN [exc |-> r.exc, state |-> state, book |-> NoBook]
    ELSE IF r.book.raw_text = <<>> \/ Len(Strip(r.book.raw_text)) = 0
    THEN [exc |-> "None",
          state |-> [state EXCEPT
                       !.error = Str(<<"fatal", ": File contains no data to extract">>)],
          book |-> NoBook]
    ELSE [exc |-> "None",
          state |-> [state EXCEPT !.error = None],
          book |-> NoBook]

\* parse_node's try block without the check for extracted content.
parse_node_try_no_content_check(state, file) ==
    LET r == PDFParser_parse(file) IN
    IF r.exc # "None" THEN [exc |-> r.exc, state |-> state, book |-> NoBook]
    ELSE [exc |-> "None",
          state |-> [state EXCEPT !.book = BookRef, !.error = None],
          book |-> r.book]

\* The try block of parse_node.
parse_node_try(state, file) ==
    LET r == PDFParser_parse(file) IN
    IF r.exc # "None" THEN [exc |-> r.exc, state |-> state, book |-> NoBook]
    ELSE IF r.book.raw_text = <<>> \/ Len(Strip(r.book.raw_text)) = 0
    THEN [exc |-> "None",
          state |-> [state EXCEPT
                       !.error = Str(<<"fatal", ": File contains no data to extract">>)],
          book |-> NoBook]
    ELSE [exc |-> "None",
          state |-> [state EXCEPT !.book = BookRef, !.error = None],
          book |-> r.book]

\* parse_node with the except FileNotFoundError clause alone.
parse_node_file_not_found_only(state, file) ==
    LET b == parse_node_try(state, file) IN
    IF b.exc = "None" THEN b
    ELSE IF IsInstance(b.exc, "FileNotFoundError")
    THEN [exc |-> "None",
          state |-> [state EXCEPT
                       !.error = Str(<<"fatal", ": File not found - ", b.exc>>)],
          book |-> NoBook]
    ELSE b

parse_node(state, file) ==
    LET b == parse_node_try(state, file) IN
    IF b.exc = "None" THEN b
    ELSE IF IsInstance(b.exc, "FileNotFoundError")
    THEN [exc |-> "None",
          state |-> [state EXCEPT
                       !.error = Str(<<"fatal", ": File not found - ", b.exc>>)],
          book |-> NoBook]
    ELSE IF IsInstance(b.exc, "Exception")
    THEN [exc |-> "None",
          state |-> [state EXCEPT
                       !.error = Str(<<"fatal", ": Failed to parse PDF - ", b.exc>>)],
          book |-> NoBook]
    ELSE b

(***************************************************************************)
(* ChapterSplitter                                                         *)
(***************************************************************************)

Chapter(number, title, text) ==
    [number |-> number, title |-> title, text |-> text,
     audio_path |-> None, duration |-> None]

\* re.IGNORECASE
Fold(c) == IF c = "h" THEN "H" ELSE c

\* Python's text[i:j] with 0 <= i <= j <= len(text).
Slice(text, i, j) == SubSeq(text, i + 1, j)

\* The pattern matches at offset pos: ^ under re.MULTILINE matches at the
\* start of the text and right after a line break.
MatchAt(pattern, text, pos) ==
    /\ pattern.anchored => (pos = 0 \/ text[pos] = "\n")
    /\ pos + Len(pattern.lit) <= Len(text)
    /\ \A k \in 1..Len(pattern.lit) : Fold(text[pos + k]) = Fold(pattern.lit[k])

\* re.finditer: the non-overlapping matches, scanning left to right.
RECURSIVE finditer(_, _, _)
finditer(pattern, text, pos) ==
    IF pos + Len(pattern.lit) > Len(text) THEN <<>>
    ELSE IF MatchAt(pattern, text, pos)
    THEN <<[start |-> pos, end |-> pos + Len(pattern.lit)]>>
         \o finditer(pattern, text, pos + Len(pattern.lit))
    ELSE finditer(pattern, text, pos + 1)

\* split() taking each body from the start of its match, heading included.
ChapterSplitter_split_body_from_match_start(book, pattern) ==
    IF ~book.alloc THEN [exc |-> "AttributeError", chapters |-> <<>>]
    ELSE IF book.raw_text = <<>> THEN [exc |-> "ValueError", chapters |-> <<>>]
    ELSE IF ~pattern.valid THEN [exc |-> "re.error", chapters |-> <<>>]
    ELSE
      LET text == book.raw_text
          matches == finditer(pattern, text, 0)
      IN IF matches = <<>>
         THEN [exc |-> "None", chapters |-> <<Chapter(1, <<"Full book">>, text)>>]
         ELSE [exc |-> "None",
               chapters |->
                 [i \in 1..Len(matches) |->
                    LET start_pos == matches[i].start
                        end_pos == IF i + 1 <= Len(matches)
                                   THEN matches[i + 1].start ELSE Len(text)
                    IN Chapter(i,
                               Strip(Slice(text, matches[i].start, matches[i].end)),
                               Strip(Slice(text, start_pos, end_pos)))]]

ChapterSplitter_split(book, pattern) ==
    IF ~book.alloc THEN [exc |-> "AttributeError", chapters |-> <<>>]
    ELSE IF book.raw_text = <<>> THEN [exc |-> "ValueError", chapters |-> <<>>]
    ELSE IF ~pattern.valid THEN [exc |-> "re.error", chapters |-> <<>>]
    ELSE
      LET text == book.raw_text
          matches == finditer(pattern, text, 0)
      IN IF matches = <<>>
         THEN [exc |-> "None", chapters |-> <<Chapter(1, <<"Full book">>, text)>>]
         ELSE [exc |-> "None",
               chapters |->
                 [i \in 1..Len(matches) |->
                    LET start_pos == matches[i].end
                        end_pos == IF i + 1 <= Len(matches)
                                   THEN matches[i + 1].start ELSE Len(text)
                    IN Chapter(i,
                               Strip(Slice(text, matches[i].start, matches[i].end)),
                               Strip(Slice(text, start_pos, end_pos)))]]

\* split_and_update_book dropping the raw text once the chapters are cut.
ChapterSplitter_split_and_update_book_drop_raw_text(book, pattern) ==
    LET r == ChapterSplitter_split(book, pattern) IN
    IF r.exc # "None" THEN [exc |-> r.exc, book |-> book]
    ELSE [exc |-> "None",
          book |-> [book EXCEPT !.chapters = r.chapters, !.raw_text = <<>>]]

\* split_and_update_book adding the chapters to those the book already has.
ChapterSplitter_split_and_update_book_extend(book, pattern) ==
    LET r == ChapterSplitter_split(book, pattern) IN
    IF r.exc # "None" THEN [exc |-> r.exc, book |-> book]
    ELSE [exc |-> "None", book |-> [book EXCEPT !.chapters = @ \o r.chapters]]

\* split() runs first; the chapters are assigned only if it returned.
ChapterSplitter_split_and_update_book(book, pattern) ==
    LET r == ChapterSplitter_split(book, pattern) IN
    IF r.exc # "None" THEN [exc |-> r.exc, book |-> book]
    ELSE [exc |-> "None", book |-> [book EXCEPT !.chapters = r.chapters]]

NoChapter == [found |-> FALSE]

\* Book.get_chapter taking the number as a position in the list.
Book_get_chapter_by_position(book, number) ==
    IF number \in 1..Len(book.chapters)
    THEN [found |-> TRUE, chapter |-> book.chapters[number]]
    ELSE NoChapter

\* Book.get_chapter: the first chapter, in list order, with that number.
Book_get_chapter(book, number) ==
    LET at == { k \in 1..Len(book.chapters) : book.chapters[k].number = number }
    IN IF at = {} THEN NoChapter
       ELSE [found |-> TRUE,
             chapter |-> book.chapters[CHOOSE k \in at : \A j \in at : k <= j]]

\* The object state['book'] refers to (None has no attributes).
Deref(state, book) == IF state.book = None THEN NoBook ELSE book

\* split_node returning only the keys it sets instead of {**state, ...}.
split_node_no_state_spread(state, book) ==
    LET r == ChapterSplitter_split_and_update_book(Deref(state, book),
                                                   state.config.pattern) IN
    IF r.exc = "None"
    THEN [exc |-> "None",
          state |-> [state EXCEPT !.book = BookRef, !.error = None,
                             !.book_path = "", !.output_dir = ""],
          book |-> r.book]
    ELSE IF IsInstance(r.exc, "Exception")
    THEN [exc |-> "None",
          state |-> [state EXCEPT
                       !.error = Str(<<"fatal", ": Failed to split chapters - ", r.exc>>)],
          book |-> book]
    ELSE [exc |-> r.exc, state |-> state, book |-> book]

\* split_node whose except clause reports the failure without the fatal prefix.
split_node_not_fatal(state, book) ==
    LET r == ChapterSplitter_split_and_update_book(Deref(state, book),
                                                   state.config.pattern) IN
    IF r.exc = "None"
    THEN [exc |-> "None",
          state |-> [state EXCEPT !.book = BookRef, !.error = None],
          book |-> r.book]
    ELSE [exc |-> "None",
          state |-> [state EXCEPT
                       !.error = Str(<<"error", ": Failed to split chapters - ", r.exc>>)],
          book |-> book]

split_node(state, book) ==
    LET r == ChapterSplitter_split_and_update_book(Deref(state, book),
                                                   state.config.pattern) IN
    IF r.exc = "None"
    THEN [exc |-> "None",
          state |-> [state EXCEPT !.book = BookRef, !.error = None],
          book |-> r.book]
    ELSE IF IsInstance(r.exc, "Exception")
    THEN [exc |-> "None",
          state |-> [state EXCEPT
                       !.error = Str(<<"fatal", ": Failed to split chapters - ", r.exc>>)],
          book |-> book]
    ELSE [exc |-> r.exc, state |-> state, book |-> book]

(***************************************************************************)
(* EdgeTTS.generate_audio and AudiobookAgent.tts_node                      *)
(***************************************************************************)

RECURSIVE Digits(_)
Digits(n) ==
    IF n < 10 THEN <<ToString(n)>>
    ELSE Digits(n \div 10) \o <<ToString(n % 10)>>

\* f"{n:02d}" keeping two digits only.
Format02d_two_digits_only(n) == <<ToString((n \div 10) % 10), ToString(n % 10)>>

\* f"{n:02d}"
Format02d(n) == IF n < 10 THEN <<"0">> \o Digits(n) ELSE Digits(n)

chapters_dir(state) == <<state.output_dir, "/", "chapters">>

audio_path(state, chapter) ==
    chapters_dir(state) \o <<"/", "chapter_">> \o Format02d(chapter.number)
        \o <<".", state.config.format>>

\* The file system under the output location: one entry per path that
\* exists, a directory, an empty file or a file with data.
Entry(path, kind) == [path |-> path, kind |-> kind]

\* Path.exists()
Exists(fs, path) == \E e \in fs : e.path = path

\* Path.unlink()
Unlink(fs, path) == { e \in fs : e.path # path }

\* What a writer leaves at a path: nothing, an empty file or a file with data.
WriteFile(fs, path, wrote) ==
    IF wrote = "nothing" THEN fs ELSE Unlink(fs, path) \cup {Entry(path, wrote)}

\* Path.rename(target), replacing the target.
Rename(fs, path, target) ==
    Unlink(Unlink(fs, target), path)
        \cup { Entry(target, e.kind) : e \in { x \in fs : x.path = path } }

\* Path.parent
Parent(path) ==
    LET slashes == { k \in 1..Len(path) : path[k] = "/" }
        last == CHOOSE k \in slashes : \A j \in slashes : j <= k
    IN SubSeq(path, 1, last - 1)

\* Path.suffix without its dot.
Suffix(path) == path[Len(path)]

\* Path.with_suffix(suffix)
with_suffix(path, suffix) == SubSeq(path, 1, Len(path) - 2) \o suffix

\* Path.mkdir(parents=True, exist_ok=True)
mkdir_parents(fs, dir) ==
    fs \cup { Entry(SubSeq(dir, 1, k), "dir") :
                k \in { j \in 1..Len(dir) : j = Len(dir) \/ dir[j + 1] = "/" } }

\* BaseTTS._validate_output testing existence only.
validate_output_exists_only(fs, output_path) == Exists(fs, output_path)

\* BaseTTS._validate_output: the path exists and its size is not zero.
validate_output(fs, output_path) ==
    \E e \in fs : e.path = output_path /\ e.kind # "empty"

\* What a writer outside the program (the synthesis engine, the converter)
\* does: whether its call raises and what it leaves at its destination.
Writes == [raises : BOOLEAN, wrote : {"nothing", "empty", "data"}]

\* What the environment does during one generate_audio call.
EngineOutcomes ==
    [init : {"ok", "raise", "raise_configuring"}, mkdir : {"ok", "raise"}, save : Writes, convert : Writes]

EngineOk ==
    [init |-> "ok", mkdir |-> "ok",
     save |-> [raises |-> FALSE, wrote |-> "data"],
     convert |-> [raises |-> FALSE, wrote |-> "data"]]

EngineRaises == [EngineOk EXCEPT !.save = [raises |-> TRUE, wrote |-> "nothing"]]

\* What the synthesis engine does with a non-blank text during a pipeline run.
ProviderOutcomes == {EngineOk, EngineRaises}

\* if not chapter.text or len(chapter.text.strip()) == 0
NoText(chapter) == chapter.text = <<>> \/ Len(Strip(chapter.text)) = 0

\* What a generate_audio call did: the exception it raised or the path it
\* returned, the file system it left, and whether it left the provider with
\* an engine, model or client it did not have before (self._engine,
\* self._tts_model, self.client).
Returned(output_path, fs) ==
    [exc |-> "None", ret |-> Str(output_path), fs |-> fs, engine |-> FALSE]

Raised(exc, fs) == [exc |-> exc, ret |-> None, fs |-> fs, engine |-> FALSE]

Initialized(r) == [r EXCEPT !.engine = TRUE]

\* The final validation and return of generate_audio, inside its try block.
FinalValidation(fs, output_path) ==
    [failed |-> ~validate_output(fs, output_path), fs |-> fs]

\* EdgeTTS.generate_audio whose outer except clause removes nothing.
EdgeTTS_generate_audio_no_cleanup(chapter, output_path, outcome, fs) ==
    IF NoText(chapter) THEN Raised("ValueError", fs)
    ELSE IF outcome.mkdir = "raise" THEN Raised("OSError", fs)
    ELSE
    LET fs1 == mkdir_parents(fs, Parent(output_path))
        temp_mp3_path == with_suffix(output_path, <<".", "temp", ".", "mp3">>)
        fs2 == WriteFile(fs1, temp_mp3_path, outcome.save.wrote)
        converted ==
            Unlink(WriteFile(fs2, output_path, outcome.convert.wrote), temp_mp3_path)
        try ==
            IF outcome.save.raises THEN [failed |-> TRUE, fs |-> fs2]
            ELSE IF ~validate_output(fs2, temp_mp3_path)
            THEN [failed |-> TRUE, fs |-> fs2]
            ELSE IF Suffix(output_path) = "mp3"
            THEN FinalValidation(Rename(fs2, temp_mp3_path, output_path), output_path)
            ELSE IF outcome.convert.raises THEN [failed |-> TRUE, fs |-> converted]
            ELSE FinalValidation(converted, output_path)
    IN IF try.failed
       THEN Raised("RuntimeError", try.fs)
       ELSE Returned(output_path, try.fs)

\* EdgeTTS.generate_audio without the test for a chapter without text.
EdgeTTS_generate_audio_no_text_check(chapter, output_path, outcome, fs) ==
    IF outcome.mkdir = "raise" THEN Raised("OSError", fs)
    ELSE
    LET fs1 == mkdir_parents(fs, Parent(output_path))
        temp_mp3_path == with_suffix(output_path, <<".", "temp", ".", "mp3">>)
        fs2 == WriteFile(fs1, temp_mp3_path, outcome.save.wrote)
        converted ==
            Unlink(WriteFile(fs2, output_path, outcome.convert.wrote), temp_mp3_path)
        try ==
            IF outcome.save.raises THEN [failed |-> TRUE, fs |-> fs2]
            ELSE IF ~validate_output(fs2, temp_mp3_path)
            THEN [failed |-> TRUE, fs |-> fs2]
            ELSE IF Suffix(output_path) = "mp3"
            THEN FinalValidation(Rename(fs2, temp_mp3_path, output_path), output_path)
            ELSE IF outcome.convert.raises THEN [failed |-> TRUE, fs |-> converted]
            ELSE FinalValidation(converted, output_path)
    IN IF try.failed
       THEN Raised("RuntimeError", Unlink(try.fs, temp_mp3_path))
       ELSE Returned(output_path, try.fs)

EdgeTTS_generate_audio(chapter, output_path, outcome, fs) ==
    IF NoText(chapter) THEN Raised("ValueError", fs)
    ELSE IF outcome.mkdir = "raise" THEN Raised("OSError", fs)
    ELSE
    LET fs1 == mkdir_parents(fs, Parent(output_path))
        temp_mp3_path == with_suffix(output_path, <<".", "temp", ".", "mp3">>)
        fs2 == WriteFile(fs1, temp_mp3_path, outcome.save.wrote)
        converted ==
            Unlink(WriteFile(fs2, output_path, outcome.convert.wrote), temp_mp3_path)
        try ==
            IF outcome.save.raises THEN [failed |-> TRUE, fs |-> fs2]
            ELSE IF ~validate_output(fs2, temp_mp3_path)
            THEN [failed |-> TRUE, fs |-> fs2]
            ELSE IF Suffix(output_path) = "mp3"
            THEN FinalValidation(Rename(fs2, temp_mp3_path, output_path), output_path)
            ELSE IF outcome.convert.raises THEN [failed |-> TRUE, fs |-> converted]
            ELSE FinalValidation(converted, output_path)
    IN IF try.failed
       THEN Raised("RuntimeError", Unlink(try.fs, temp_mp3_path))
       ELSE Returned(output_path, try.fs)

\* Pyttsx3TTS.generate_audio initializing the engine and creating the
\* directory before it looks at the text.
Pyttsx3TTS_generate_audio_text_check_late(chapter, output_path, outcome, fs) ==
    IF outcome.init = "raise" THEN Raised("RuntimeError", fs)
    ELSE IF outcome.init = "raise_configuring"
    THEN Initialized(Raised("RuntimeError", fs))
    ELSE IF outcome.mkdir = "raise" THEN Initialized(Raised("OSError", fs))
    ELSE
    LET fs1 == mkdir_parents(fs, Parent(output_path))
        path == IF Suffix(output_path) \notin {"mp3", "wav"}
                THEN with_suffix(output_path, <<".", "mp3">>)
                ELSE output_path
        fs2 == WriteFile(fs1, path, outcome.save.wrote)
        try ==
            IF outcome.save.raises THEN [failed |-> TRUE, fs |-> fs2]
            ELSE FinalValidation(fs2, path)
    IN IF NoText(chapter) THEN Initialized(Raised("ValueError", fs1))
       ELSE IF try.failed
       THEN Initialized(Raised("RuntimeError", try.fs))
       ELSE Initialized(Returned(path, try.fs))

Pyttsx3TTS_generate_audio(chapter, output_path, outcome, fs) ==
    IF NoText(chapter) THEN Raised("ValueError", fs)
    ELSE IF outcome.init = "raise" THEN Raised("RuntimeError", fs)
    ELSE IF outcome.init = "raise_configuring"
    THEN Initialized(Raised("RuntimeError", fs))
    ELSE IF outcome.mkdir = "raise" THEN Initialized(Raised("OSError", fs))
    ELSE
    LET fs1 == mkdir_parents(fs, Parent(output_path))
        path == IF Suffix(output_path) \notin {"mp3", "wav"}
                THEN with_suffix(output_path, <<".", "mp3">>)
                ELSE output_path
        fs2 == WriteFile(fs1, path, outcome.save.wrote)
        try ==
            IF outcome.save.raises THEN [failed |-> TRUE, fs |-> fs2]
            ELSE FinalValidation(fs2, path)
    IN IF try.failed
       THEN Initialized(Raised("RuntimeError", try.fs))
       ELSE Initialized(Returned(path, try.fs))

\* self._engine of a Pyttsx3TTS: None, the engine pyttsx3.init() returned
\* whose rate, volume or voice is not set yet, or the configured engine.
Pyttsx3Engines == {"None", "created", "configured"}

\* Pyttsx3TTS._initialize_engine: self._engine is assigned before it is
\* configured, and the except clause does not reset it.
Pyttsx3TTS_initialize_engine(engine, init) ==
    IF engine # "None" THEN [exc |-> "None", engine |-> engine]
    ELSE IF init = "ok" THEN [exc |-> "None", engine |-> "configured"]
    ELSE IF init = "raise" THEN [exc |-> "RuntimeError", engine |-> "None"]
    ELSE [exc |-> "RuntimeError", engine |-> "created"]

\* Pyttsx3TTS.generate_audio on a provider whose self._engine is engine: the
\* result of the call, self._engine after it, and the engine save_to_file
\* was called on ("None" when the call did not get that far).
Pyttsx3TTS_generate_audio_on(engine, chapter, output_path, outcome, fs) ==
    IF NoText(chapter)
    THEN [result |-> Raised("ValueError", fs), engine |-> engine, used |-> "None"]
    ELSE
    LET i == Pyttsx3TTS_initialize_engine(engine, outcome.init)
        fs1 == mkdir_parents(fs, Parent(output_path))
        path == IF Suffix(output_path) \notin {"mp3", "wav"}
                THEN with_suffix(output_path, <<".", "mp3">>)
                ELSE output_path
        fs2 == WriteFile(fs1, path, outcome.save.wrote)
        try ==
            IF outcome.save.raises THEN [failed |-> TRUE, fs |-> fs2]
            ELSE FinalValidation(fs2, path)
    IN IF i.exc # "None"
       THEN [result |-> Raised(i.exc, fs), engine |-> i.engine, used |-> "None"]
       ELSE IF outcome.mkdir = "raise"
       THEN [result |-> Raised("OSError", fs), engine |-> i.engine, used |-> "None"]
       ELSE IF try.failed
       THEN [result |-> Raised("RuntimeError", try.fs), engine |-> i.engine,
             used |-> i.engine]
       ELSE [result |-> Returned(path, try.fs), engine |-> i.engine,
             used |-> i.engine]

CoquiTTS_generate_audio(chapter, output_path, outcome, fs) ==
    IF NoText(chapter) THEN Raised("ValueError", fs)
    ELSE IF outcome.init # "ok" THEN Raised("RuntimeError", fs)
    ELSE IF outcome.mkdir = "raise" THEN Initialized(Raised("OSError", fs))
    ELSE
    LET fs1 == mkdir_parents(fs, Parent(output_path))
        temp_wav_path == with_suffix(output_path, <<".", "temp", ".", "wav">>)
        fs2 == WriteFile(fs1, temp_wav_path, outcome.save.wrote)
        converted ==
            Unlink(WriteFile(fs2, output_path, outcome.convert.wrote), temp_wav_path)
        try ==
            IF outcome.save.raises THEN [failed |-> TRUE, fs |-> fs2]
            ELSE IF ~validate_output(fs2, temp_wav_path)
            THEN [failed |-> TRUE, fs |-> fs2]
            ELSE IF Suffix(output_path) = "wav"
            THEN FinalValidation(Rename(fs2, temp_wav_path, output_path), output_path)
            ELSE IF outcome.convert.raises THEN [failed |-> TRUE, fs |-> converted]
            ELSE FinalValidation(converted, output_path)
    IN IF try.failed
       THEN Initialized(Raised("RuntimeError", Unlink(try.fs, temp_wav_path)))
       ELSE Initialized(Returned(output_path, try.fs))

\* _convert_pcm_to_format: WAV is written in place; any other format goes
\* through a temporary WAV outside the output location and ffmpeg.
NeuphonicTTS_convert_pcm_to_format(output_path, outcome, fs) ==
    IF Suffix(output_path) = "wav"
    THEN [failed |-> outcome.save.raises,
          fs |-> WriteFile(fs, output_path, outcome.save.wrote)]
    ELSE IF outcome.save.raises THEN [failed |-> TRUE, fs |-> fs]
    ELSE [failed |-> outcome.convert.raises,
          fs |-> WriteFile(fs, output_path, outcome.convert.wrote)]

NeuphonicTTS_generate_audio(chapter, output_path, outcome, fs) ==
    IF NoText(chapter) THEN Raised("ValueError", fs)
    ELSE IF outcome.init # "ok" THEN Raised("RuntimeError", fs)
    ELSE IF outcome.mkdir = "raise" THEN Initialized(Raised("OSError", fs))
    ELSE
    LET fs1 == mkdir_parents(fs, Parent(output_path))
        written == NeuphonicTTS_convert_pcm_to_format(output_path, outcome, fs1)
        try ==
            IF written.failed THEN written
            ELSE FinalValidation(written.fs, output_path)
    IN IF try.failed
       THEN Initialized(Raised("RuntimeError", try.fs))
       ELSE Initialized(Returned(output_path, try.fs))

Providers == {"EdgeTTS", "Pyttsx3TTS", "CoquiTTS", "NeuphonicTTS"}

\* provider.generate_audio(chapter, output_path) by the provider's class.
generate_audio(provider, chapter, output_path, outcome, fs) ==
    IF provider = "EdgeTTS"
    THEN EdgeTTS_generate_audio(chapter, output_path, outcome, fs)
    ELSE IF provider = "Pyttsx3TTS"
    THEN Pyttsx3TTS_generate_audio(chapter, output_path, outcome, fs)
    ELSE IF provider = "CoquiTTS"
    THEN CoquiTTS_generate_audio(chapter, output_path, outcome, fs)
    ELSE NeuphonicTTS_generate_audio(chapter, output_path, outcome, fs)

\* What provider construction and directory creation do.
InitOutcomes == {"ok", "ctor_raise", "mkdir_raise"}

TtsLocals0 == [successful_chapters |-> 0, failed_chapters |-> <<>>, idx |-> 0]

\* tts_node going on to the loop when the chapters directory cannot be made.
tts_enter_ignore_mkdir_error(state, book, env, fs) ==
    LET exc == IF env = "ctor_raise" THEN "RuntimeError"
               ELSE IF state.book = None THEN "AttributeError"
               ELSE "None"
        fs1 == IF env \in {"ctor_raise", "mkdir_raise"} THEN fs
               ELSE mkdir_parents(fs, chapters_dir(state))
    IN IF exc = "None"
       THEN [exc |-> "None", entered |-> TRUE, state |-> state, fs |-> fs1]
       ELSE IF IsInstance(exc, "Exception")
       THEN [exc |-> "None", entered |-> FALSE,
             state |-> [state EXCEPT
                          !.error = Str(<<"fatal", ": TTS initialization failed - ", exc>>)],
             fs |-> fs1]
       ELSE [exc |-> exc, entered |-> FALSE, state |-> state, fs |-> fs1]

\* tts_node up to the first loop iteration, with its outer except clause.
tts_enter(state, book, env, fs) ==
    LET exc == IF env = "ctor_raise" THEN "RuntimeError"
               ELSE IF env = "mkdir_raise" THEN "OSError"
               ELSE IF state.book = None THEN "AttributeError"
               ELSE "None"
        fs1 == IF env \in {"ctor_raise", "mkdir_raise"} THEN fs
               ELSE mkdir_parents(fs, chapters_dir(state))
    IN IF exc = "None"
       THEN [exc |-> "None", entered |-> TRUE, state |-> state, fs |-> fs1]
       ELSE IF IsInstance(exc, "Exception")
       THEN [exc |-> "None", entered |-> FALSE,
             state |-> [state EXCEPT
                          !.error = Str(<<"fatal", ": TTS initialization failed - ", exc>>)],
             fs |-> fs1]
       ELSE [exc |-> exc, entered |-> FALSE, state |-> state, fs |-> fs1]

\* The loop iteration passing over the chapter after one that failed.
tts_chapter_skip_after_failure(state, book, locals, outcome, fs) ==
    LET i == locals.idx
        chapter == book.chapters[i]
        path == audio_path(state, chapter)
        r == EdgeTTS_generate_audio(chapter, path, outcome, fs)
        call == [number |-> chapter.number, text |-> chapter.text,
                 path |-> path, ret |-> r.ret, exc |-> r.exc]
    IN IF r.exc = "None"
       THEN [exc |-> "None", continue |-> TRUE,
             book |-> [book EXCEPT !.chapters[i].audio_path = r.ret],
             locals |-> [locals EXCEPT
                           !.successful_chapters = @ + 1, !.idx = @ + 1],
             fs |-> r.fs, call |-> call]
       ELSE IF IsInstance(r.exc, "Exception")
       THEN [exc |-> "None", continue |-> TRUE,
             book |-> book,
             locals |-> [locals EXCEPT
                           !.failed_chapters = Append(@, chapter.number),
                           !.idx = @ + 2],
             fs |-> r.fs, call |-> call]
       ELSE [exc |-> r.exc, continue |-> FALSE, book |-> book,
             locals |-> locals, fs |-> r.fs, call |-> call]

\* The loop iteration counting a chapter as generated before its call returns.
tts_chapter_count_every_attempt(state, book, locals, outcome, fs) ==
    LET i == locals.idx
        chapter == book.chapters[i]
        path == audio_path(state, chapter)
        r == EdgeTTS_generate_audio(chapter, path, outcome, fs)
        call == [number |-> chapter.number, text |-> chapter.text,
                 path |-> path, ret |-> r.ret, exc |-> r.exc]
    IN IF r.exc = "None"
       THEN [exc |-> "None", continue |-> TRUE,
             book |-> [book EXCEPT !.chapters[i].audio_path = r.ret],
             locals |-> [locals EXCEPT
                           !.successful_chapters = @ + 1, !.idx = @ + 1],
             fs |-> r.fs, call |-> call]
       ELSE IF IsInstance(r.exc, "Exception")
       THEN [exc |-> "None", continue |-> TRUE,
             book |-> book,
             locals |-> [locals EXCEPT
                           !.successful_chapters = @ + 1,
                           !.failed_chapters = Append(@, chapter.number),
                           !.idx = @ + 1],
             fs |-> r.fs, call |-> call]
       ELSE [exc |-> r.exc, continue |-> FALSE, book |-> book,
             locals |-> locals, fs |-> r.fs, call |-> call]

\* The loop iteration naming the file by the count of chapters generated so far.
tts_chapter_path_by_success_count(state, book, locals, outcome, fs) ==
    LET i == locals.idx
        chapter == book.chapters[i]
        path == audio_path(state, [chapter EXCEPT !.number = locals.successful_chapters + 1])
        r == EdgeTTS_generate_audio(chapter, path, outcome, fs)
        call == [number |-> chapter.number, text |-> chapter.text,
                 path |-> path, ret |-> r.ret, exc |-> r.exc]
    IN IF r.exc = "None"
       THEN [exc |-> "None", continue |-> TRUE,
             book |-> [book EXCEPT !.chapters[i].audio_path = r.ret],
             locals |-> [locals EXCEPT
                           !.successful_chapters = @ + 1, !.idx = @ + 1],
             fs |-> r.fs, call |-> call]
       ELSE IF IsInstance(r.exc, "Exception")
       THEN [exc |-> "None", continue |-> TRUE,
             book |-> book,
             locals |-> [locals EXCEPT
                           !.failed_chapters = Append(@, chapter.number),
                           !.idx = @ + 1],
             fs |-> r.fs, call |-> call]
       ELSE [exc |-> r.exc, continue |-> FALSE, book |-> book,
             locals |-> locals, fs |-> r.fs, call |-> call]

\* The loop iteration with break in place of continue in the except clause.
tts_chapter_break_on_failure(state, book, locals, outcome, fs) ==
    LET i == locals.idx
        chapter == book.chapters[i]
        path == audio_path(state, chapter)
        r == EdgeTTS_generate_audio(chapter, path, outcome, fs)
        call == [number |-> chapter.number, text |-> chapter.text,
                 path |-> path, ret |-> r.ret, exc |-> r.exc]
    IN IF r.exc = "None"
       THEN [exc |-> "None", continue |-> TRUE,
             book |-> [book EXCEPT !.chapters[i].audio_path = r.ret],
             locals |-> [locals EXCEPT
                           !.successful_chapters = @ + 1, !.idx = @ + 1],
             fs |-> r.fs, call |-> call]
       ELSE [exc |-> "None", continue |-> FALSE,
             book |-> book,
             locals |-> [locals EXCEPT
                           !.failed_chapters = Append(@, chapter.number)],
             fs |-> r.fs, call |-> call]

\* The loop iteration assigning chapter.audio_path before the provider call.
tts_chapter_audio_path_before_call(state, book, locals, outcome, fs) ==
    LET i == locals.idx
        chapter == book.chapters[i]
        path == audio_path(state, chapter)
        r == EdgeTTS_generate_audio(chapter, path, outcome, fs)
        call == [number |-> chapter.number, text |-> chapter.text,
                 path |-> path, ret |-> r.ret, exc |-> r.exc]
    IN IF r.exc = "None"
       THEN [exc |-> "None", continue |-> TRUE,
             book |-> [book EXCEPT !.chapters[i].audio_path = r.ret],
             locals |-> [locals EXCEPT
                           !.successful_chapters = @ + 1, !.idx = @ + 1],
             fs |-> r.fs, call |-> call]
       ELSE [exc |-> "None", continue |-> TRUE,
             book |-> [book EXCEPT !.chapters[i].audio_path = Str(path)],
             locals |-> [locals EXCEPT
                           !.failed_chapters = Append(@, chapter.number),
                           !.idx = @ + 1],
             fs |-> r.fs, call |-> call]

\* The loop iteration without the assignment chapter.audio_path = generated_path.
tts_chapter_no_audio_path(state, book, locals, outcome, fs) ==
    LET i == locals.idx
        chapter == book.chapters[i]
        path == audio_path(state, chapter)
        r == EdgeTTS_generate_audio(chapter, path, outcome, fs)
        call == [number |-> chapter.number, text |-> chapter.text,
                 path |-> path, ret |-> r.ret, exc |-> r.exc]
    IN IF r.exc = "None"
       THEN [exc |-> "None", continue |-> TRUE,
             book |-> book,
             locals |-> [locals EXCEPT
                           !.successful_chapters = @ + 1, !.idx = @ + 1],
             fs |-> r.fs, call |-> call]
       ELSE [exc |-> "None", continue |-> TRUE,
             book |-> book,
             locals |-> [locals EXCEPT
                           !.failed_chapters = Append(@, chapter.number),
                           !.idx = @ + 1],
             fs |-> r.fs, call |-> call]

\* One iteration of the chapter loop, with its inner except clause.
tts_chapter(state, book, locals, outcome, fs) ==
    LET i == locals.idx
        chapter == book.chapters[i]
        path == audio_path(state, chapter)
        r == EdgeTTS_generate_audio(chapter, path, outcome, fs)
        call == [number |-> chapter.number, text |-> chapter.text,
                 path |-> path, ret |-> r.ret, exc |-> r.exc]
    IN IF r.exc = "None"
       THEN [exc |-> "None", continue |-> TRUE,
             book |-> [book EXCEPT !.chapters[i].audio_path = r.ret],
             locals |-> [locals EXCEPT
                           !.successful_chapters = @ + 1, !.idx = @ + 1],
             fs |-> r.fs, call |-> call]
       ELSE IF IsInstance(r.exc, "Exception")
       THEN [exc |-> "None", continue |-> TRUE,
             book |-> book,
             locals |-> [locals EXCEPT
                           !.failed_chapters = Append(@, chapter.number),
                           !.idx = @ + 1],
             fs |-> r.fs, call |-> call]
       ELSE [exc |-> r.exc, continue |-> FALSE, book |-> book,
             locals |-> locals, fs |-> r.fs, call |-> call]

HasAudio(ch) == Truthy(ch.audio_path)

\* str(list) of the failed chapter numbers: "[2]", "[1, 3]".
RECURSIVE JoinNumbers(_)
JoinNumbers(ns) ==
    IF ns = <<>> THEN <<>>
    ELSE IF Len(ns) = 1 THEN Digits(ns[1])
    ELSE Digits(ns[1]) \o <<", ">> \o JoinNumbers(Tail(ns))

warning_msg(failed_chapters) ==
    Str(<<"warning", ": ">> \o Digits(Len(failed_chapters))
        \o <<" chapters failed: ", "[">> \o JoinNumbers(failed_chapters) \o <<"]">>)

\* tts_node after the loop without the removal of the failed chapters.
tts_finish_keep_failed(state, book, locals) ==
    IF locals.successful_chapters = 0
    THEN [state |-> [state EXCEPT
                       !.error = Str(<<"fatal", ": All chapters failed to generate audio">>)],
          book |-> book, logged |-> None]
    ELSE IF locals.failed_chapters # <<>>
    THEN [state |-> [state EXCEPT !.book = BookRef, !.error = None],
          book |-> book,
          logged |-> warning_msg(locals.failed_chapters)]
    ELSE [state |-> [state EXCEPT !.book = BookRef, !.error = None],
          book |-> book, logged |-> None]

\* tts_node after the loop renumbering the chapters that remain.
tts_finish_renumber(state, book, locals) ==
    IF locals.successful_chapters = 0
    THEN [state |-> [state EXCEPT
                       !.error = Str(<<"fatal", ": All chapters failed to generate audio">>)],
          book |-> book, logged |-> None]
    ELSE IF locals.failed_chapters # <<>>
    THEN [state |-> [state EXCEPT !.book = BookRef, !.error = None],
          book |-> [book EXCEPT !.chapters =
                      LET kept == SelectSeq(@, HasAudio)
                      IN [k \in 1..Len(kept) |-> [kept[k] EXCEPT !.number = k]]],
          logged |-> warning_msg(locals.failed_chapters)]
    ELSE [state |-> [state EXCEPT !.book = BookRef, !.error = None],
          book |-> book, logged |-> None]

\* tts_node after the loop reporting fatal as soon as one chapter failed.
tts_finish_fatal_on_any_failure(state, book, locals) ==
    IF locals.successful_chapters = 0 \/ locals.failed_chapters # <<>>
    THEN [state |-> [state EXCEPT
                       !.error = Str(<<"fatal", ": All chapters failed to generate audio">>)],
          book |-> book, logged |-> None]
    ELSE [state |-> [state EXCEPT !.book = BookRef, !.error = None],
          book |-> book, logged |-> None]

\* tts_node after the loop without the test successful_chapters == 0.
tts_finish_no_fatal(state, book, locals) ==
    IF locals.failed_chapters # <<>>
    THEN [state |-> [state EXCEPT !.book = BookRef, !.error = None],
          book |-> [book EXCEPT !.chapters = SelectSeq(@, HasAudio)],
          logged |-> warning_msg(locals.failed_chapters)]
    ELSE [state |-> [state EXCEPT !.book = BookRef, !.error = None],
          book |-> book, logged |-> None]

\* tts_node after the loop.  The warning message is built and logged only.
tts_finish(state, book, locals) ==
    IF locals.successful_chapters = 0
    THEN [state |-> [state EXCEPT
                       !.error = Str(<<"fatal", ": All chapters failed to generate audio">>)],
          book |-> book, logged |-> None]
    ELSE IF locals.failed_chapters # <<>>
    THEN [state |-> [state EXCEPT !.book = BookRef, !.error = None],
          book |-> [book EXCEPT !.chapters = SelectSeq(@, HasAudio)],
          logged |-> warning_msg(locals.failed_chapters)]
    ELSE [state |-> [state EXCEPT !.book = BookRef, !.error = None],
          book |-> book, logged |-> None]

(***************************************************************************)
(* The compiled workflow: entry point parse, conditional edges after parse *)
(* and split, and tts as the last node.                                    *)
(***************************************************************************)

VARIABLES
    pc,        \* where the run is: parse, split, tts, tts_loop, tts_post, done, raised
    state,     \* the AudiobookState flowing through the workflow
    book,      \* the Book object state.book refers to
    tts,       \* tts_node's locals: counters, failed list, loop position
    calls,     \* the provider calls made so far, in order
    log,       \* the last warning logged by tts_node
    fs,        \* paths that exist under the output location
    executed,  \* the nodes that have run, in order
    parsed,    \* what PDFParser.parse returned or raised
    raised,    \* the exception that escaped a node, if any
    probe,     \* a function called on its own: its arguments and its result
    twin       \* a second run of tts_node over the same chapters

vars == <<pc, state, book, tts, calls, log, fs, executed, parsed, raised, probe, twin>>

Init ==
    /\ pc = "parse"
    /\ state \in { initial_state(c) : c \in AudiobookConfig }
    /\ book = NoBook
    /\ tts = TtsLocals0
    /\ calls = <<>>
    /\ log = None
    /\ fs = {}
    /\ executed = <<>>
    /\ parsed = [exc |-> "None", book |-> NoBook]
    /\ raised = "None"
    /\ probe = None
    /\ twin = None

\* The conditional edge after a node: "continue" goes to next, "end" to END.
Edge(st, next) == IF route_after_step(st) = "end" THEN "done" ELSE next

ParseNode ==
    /\ pc = "parse"
    /\ \E file \in Files :
         LET r == parse_node(state, file) IN
         /\ parsed' = PDFParser_parse(file)
         /\ IF r.exc = "None"
            THEN /\ state' = r.state
                 /\ book' = r.book
                 /\ pc' = Edge(r.state, "split")
                 /\ raised' = raised
            ELSE /\ pc' = "raised"
                 /\ raised' = r.exc
                 /\ UNCHANGED <<state, book>>
    /\ executed' = Append(executed, "parse")
    /\ UNCHANGED <<tts, calls, log, fs, probe, twin>>

SplitNode ==
    /\ pc = "split"
    /\ LET r == split_node(state, book) IN
       IF r.exc = "None"
       THEN /\ state' = r.state
            /\ book' = r.book
            /\ pc' = Edge(r.state, "tts")
            /\ raised' = raised
       ELSE /\ pc' = "raised"
            /\ raised' = r.exc
            /\ UNCHANGED <<state, book>>
    /\ executed' = Append(executed, "split")
    /\ UNCHANGED <<tts, calls, log, fs, parsed, probe, twin>>

TtsEnter ==
    /\ pc = "tts"
    /\ \E env \in InitOutcomes :
         LET r == tts_enter(state, book, env, fs) IN
         /\ fs' = r.fs
         /\ IF r.exc # "None"
            THEN /\ pc' = "raised"
                 /\ raised' = r.exc
                 /\ UNCHANGED <<state, tts>>
            ELSE /\ raised' = raised
                 /\ state' = r.state
                 /\ IF r.entered
                    THEN pc' = "tts_loop" /\ tts' = [TtsLocals0 EXCEPT !.idx = 1]
                    ELSE pc' = "done" /\ tts' = tts
    /\ executed' = Append(executed, "tts")
    /\ UNCHANGED <<book, calls, log, parsed, probe, twin>>

TtsChapter ==
    /\ pc = "tts_loop"
    /\ tts.idx <= Len(book.chapters)
    /\ \E outcome \in ProviderOutcomes :
         LET r == tts_chapter(state, book, tts, outcome, fs) IN
         /\ calls' = Append(calls, r.call)
         /\ fs' = r.fs
         /\ book' = r.book
         /\ tts' = r.locals
         /\ IF r.exc # "None"
            THEN pc' = "raised" /\ raised' = r.exc
            ELSE /\ raised' = raised
                 /\ pc' = IF r.continue THEN "tts_loop" ELSE "tts_post"
    /\ UNCHANGED <<state, log, executed, parsed, probe, twin>>

TtsFinish ==
    /\ pc \in {"tts_loop", "tts_post"}
    /\ pc = "tts_loop" => tts.idx > Len(book.chapters)
    /\ LET r == tts_finish(state, book, tts) IN
       /\ state' = r.state
       /\ book' = r.book
       /\ log' = r.logged
    /\ pc' = "done"
    /\ UNCHANGED <<tts, calls, fs, executed, parsed, raised, probe, twin>>

Next == ParseNode \/ SplitNode \/ TtsEnter \/ TtsChapter \/ TtsFinish

Spec == Init /\ [][Next]_vars

(***************************************************************************)
(* The splitter called directly on a Book a caller built: the raw text is  *)
(* any text, not only one the parser stripped.                             *)
(***************************************************************************)

InitSplit ==
    /\ pc = "split_call"
    /\ \E c \in AudiobookConfig, t \in TextsUpTo(MaxLen) :
         /\ c.format = "mp3"
         /\ state = [initial_state(c) EXCEPT !.book = BookRef]
         /\ book = Book("Book", t)
    /\ tts = TtsLocals0
    /\ calls = <<>>
    /\ log = None
    /\ fs = {}
    /\ executed = <<>>
    /\ parsed = [exc |-> "None", book |-> NoBook]
    /\ raised = "None"
    /\ probe = None
    /\ twin = None

\* splitter.split_and_update_book(book)
SplitCall ==
    /\ pc = "split_call"
    /\ LET r == ChapterSplitter_split_and_update_book(book, state.config.pattern) IN
       /\ book' = r.book
       /\ raised' = r.exc
       /\ pc' = IF r.exc = "None" THEN "split_returned" ELSE "split_raised"
    /\ UNCHANGED <<state, tts, calls, log, fs, executed, parsed, probe, twin>>

\* A second splitter.split_and_update_book(book) on the book just split.
SplitAgain ==
    /\ pc = "split_returned"
    /\ LET r == ChapterSplitter_split_and_update_book(book, state.config.pattern) IN
       /\ book' = r.book
       /\ raised' = r.exc
       /\ pc' = IF r.exc = "None" THEN "split_twice" ELSE "split_raised"
    /\ UNCHANGED <<state, tts, calls, log, fs, executed, parsed, probe, twin>>

NextSplit == SplitCall \/ SplitAgain

SpecSplit == InitSplit /\ [][NextSplit]_vars

(***************************************************************************)
(* The destinations tts_node derives for the chapters of a long book.      *)
(***************************************************************************)

InitPath ==
    /\ pc = "path_call"
    /\ \E c \in AudiobookConfig, n \in 1..MaxNumber :
         /\ state = [initial_state(c) EXCEPT !.book = BookRef]
         /\ book = [Book("Book", <<>>) EXCEPT
                      !.chapters = [k \in 1..n |-> Chapter(k, <<"H">>, <<"a">>)]]
    /\ tts = TtsLocals0
    /\ calls = <<>>
    /\ log = None
    /\ fs = {}
    /\ executed = <<>>
    /\ parsed = [exc |-> "None", book |-> NoBook]
    /\ raised = "None"
    /\ probe = None
    /\ twin = None

\* audio_path = chapters_dir / audio_filename, for every chapter in turn.
PathCall ==
    /\ pc = "path_call"
    /\ probe' = [paths |-> [k \in 1..Len(book.chapters) |->
                              audio_path(state, book.chapters[k])]]
    /\ pc' = "path_done"
    /\ UNCHANGED <<state, book, tts, calls, log, fs, executed, parsed, raised, twin>>

NextPath == PathCall

SpecPath == InitPath /\ [][NextPath]_vars

(***************************************************************************)
(* Two runs of tts_node over the same chapters. The synthesis engine does  *)
(* the same in both for every chapter but one, chapter flip, whose call    *)
(* returns in the first run and raises in the second.                      *)
(***************************************************************************)

InitPair ==
    /\ pc = "tts_loop"
    /\ \E c \in AudiobookConfig, t \in TextsUpTo(MaxLen) :
         /\ c.pattern.valid
         /\ t # <<>> /\ Strip(t) = t
         /\ state = [initial_state(c) EXCEPT !.book = BookRef]
         /\ book = ChapterSplitter_split_and_update_book(Book("Book", t), c.pattern).book
    /\ tts = [TtsLocals0 EXCEPT !.idx = 1]
    /\ calls = <<>>
    /\ log = None
    /\ fs = mkdir_parents({}, chapters_dir(state))
    /\ executed = <<"parse", "split", "tts">>
    /\ parsed = [exc |-> "None", book |-> NoBook]
    /\ raised = "None"
    /\ probe = None
    /\ \E i \in 1..Len(book.chapters) :
         twin = [pc |-> pc, state |-> state, book |-> book, locals |-> tts,
                 calls |-> calls, fs |-> fs, flip |-> i, chapters |-> book.chapters]

\* One loop iteration in each run.
PairChapter ==
    /\ pc = "tts_loop"
    /\ tts.idx <= Len(book.chapters)
    /\ \E outcome \in ProviderOutcomes :
         LET a == tts_chapter(state, book, tts,
                              IF tts.idx = twin.flip THEN EngineOk ELSE outcome, fs)
             more == twin.pc = "tts_loop" /\ twin.locals.idx <= Len(twin.book.chapters)
             b == tts_chapter(twin.state, twin.book, twin.locals,
                              IF twin.locals.idx = twin.flip THEN EngineRaises ELSE outcome,
                              twin.fs)
         IN /\ calls' = Append(calls, a.call)
            /\ fs' = a.fs
            /\ book' = a.book
            /\ tts' = a.locals
            /\ pc' = IF a.exc # "None" THEN "raised"
                     ELSE IF a.continue THEN "tts_loop" ELSE "tts_post"
            /\ raised' = a.exc
            /\ twin' = IF more
                       THEN [twin EXCEPT
                               !.calls = Append(@, b.call), !.fs = b.fs,
                               !.book = b.book, !.locals = b.locals,
                               !.pc = IF b.exc # "None" THEN "raised"
                                      ELSE IF b.continue THEN "tts_loop" ELSE "tts_post"]
                       ELSE twin
    /\ UNCHANGED <<state, log, executed, parsed, probe>>

\* The code after the loop in each run.
PairFinish ==
    /\ pc \in {"tts_loop", "tts_post"}
    /\ pc = "tts_loop" => tts.idx > Len(book.chapters)
    /\ LET a == tts_finish(state, book, tts)
           b == tts_finish(twin.state, twin.book, twin.locals)
       IN /\ state' = a.state
          /\ book' = a.book
          /\ log' = a.logged
          /\ twin' = [twin EXCEPT !.state = b.state, !.book = b.book, !.pc = "done"]
    /\ pc' = "done"
    /\ UNCHANGED <<tts, calls, fs, executed, parsed, raised, probe>>

NextPair == PairChapter \/ PairFinish

SpecPair == InitPair /\ [][NextPair]_vars

(***************************************************************************)
(* One generate_audio call on a provider of each class, for a chapter with *)
(* or without text, a destination of each format, and an output location   *)
(* that is new or holds a file an earlier run left at the destination.     *)
(***************************************************************************)

ProviderFormats == Formats \cup {"ogg"}

InitProvider ==
    /\ pc = "provider_call"
    /\ \E c \in AudiobookConfig :
         /\ c.pattern.valid /\ c.pattern.anchored
         /\ c.format = "mp3"
         /\ state = initial_state(c)
    /\ book = NoBook
    /\ tts = TtsLocals0
    /\ calls = <<>>
    /\ log = None
    /\ executed = <<>>
    /\ parsed = [exc |-> "None", book |-> NoBook]
    /\ raised = "None"
    /\ twin = None
    /\ \E provider \in Providers, format \in ProviderFormats,
          text \in {<<"a">>, <<"\n">>, <<>>},
          left \in {"nothing", "empty", "data"} :
         LET chapter == Chapter(1, <<"H">>, text)
             output_path == audio_path([state EXCEPT !.config.format = format], chapter)
         IN /\ fs \in { {},
                        WriteFile(mkdir_parents({}, Parent(output_path)),
                                  output_path, left) }
            /\ probe = [provider |-> provider, chapter |-> chapter,
                        output_path |-> output_path, before |-> fs,
                        ret |-> None, engine |-> FALSE]

\* provider.generate_audio(chapter, output_path)
ProviderCall ==
    /\ pc = "provider_call"
    /\ \E outcome \in EngineOutcomes :
         LET r == generate_audio(probe.provider, probe.chapter, probe.output_path,
                                 outcome, fs)
         IN /\ fs' = r.fs
            /\ raised' = r.exc
            /\ probe' = [probe EXCEPT !.ret = r.ret, !.engine = r.engine]
            /\ pc' = IF r.exc = "None" THEN "provider_returned" ELSE "provider_raised"
    /\ UNCHANGED <<state, book, tts, calls, log, executed, parsed, twin>>

NextProvider == ProviderCall

SpecProvider == InitProvider /\ [][NextProvider]_vars

(***************************************************************************)
(* The chapter loop of tts_node on one Pyttsx3TTS provider (offline mode): *)
(* the provider object, and its self._engine, live across the calls.       *)
(***************************************************************************)

\* What the pyttsx3 engine does during one call (there is no conversion).
Pyttsx3Outcomes == { o \in EngineOutcomes : o.convert = EngineOk.convert }

InitEngine ==
    /\ pc = "engine_loop"
    /\ \E c \in AudiobookConfig :
         /\ c.pattern.valid /\ c.pattern.anchored
         /\ c.format = "mp3"
         /\ state = [initial_state(c) EXCEPT !.book = BookRef]
    /\ \E n \in 1..3 :
         \E texts \in [1..n -> {<<"a">>, <<"\n">>}] :
           book = [Book("Book", <<"a">>) EXCEPT
                     !.chapters = [k \in 1..n |-> Chapter(k, <<"H">>, texts[k])]]
    /\ tts = [TtsLocals0 EXCEPT !.idx = 1]
    /\ calls = <<>>
    /\ log = None
    /\ fs = mkdir_parents({}, chapters_dir(state))
    /\ executed = <<"parse", "split", "tts">>
    /\ parsed = [exc |-> "None", book |-> NoBook]
    /\ raised = "None"
    /\ twin = None
    /\ probe = [provider |-> "Pyttsx3TTS", engine |-> "None"]

\* One iteration of the loop: tts_provider.generate_audio(chapter, audio_path)
\* on the same provider object; an Exception is caught and the loop goes on.
EngineChapter ==
    /\ pc = "engine_loop"
    /\ tts.idx <= Len(book.chapters)
    /\ \E outcome \in Pyttsx3Outcomes :
         LET chapter == book.chapters[tts.idx]
             path == audio_path(state, chapter)
             r == Pyttsx3TTS_generate_audio_on(probe.engine, chapter, path,
                                               outcome, fs)
         IN /\ calls' = Append(calls,
                               [number |-> chapter.number, text |-> chapter.text,
                                path |-> path, ret |-> r.result.ret,
                                exc |-> r.result.exc, before |-> probe.engine,
                                used |-> r.used])
            /\ fs' = r.result.fs
            /\ probe' = [probe EXCEPT !.engine = r.engine]
            /\ book' = IF r.result.exc = "None"
                       THEN [book EXCEPT !.chapters[tts.idx].audio_path = r.result.ret]
                       ELSE book
            /\ tts' = IF r.result.exc = "None"
                      THEN [tts EXCEPT !.successful_chapters = @ + 1, !.idx = @ + 1]
                      ELSE [tts EXCEPT !.failed_chapters = Append(@, chapter.number),
                                       !.idx = @ + 1]
    /\ UNCHANGED <<pc, state, log, executed, parsed, raised, twin>>

\* The loop has visited every chapter.
EngineLoopEnd ==
    /\ pc = "engine_loop"
    /\ tts.idx > Len(book.chapters)
    /\ pc' = "engine_done"
    /\ UNCHANGED <<state, book, tts, calls, log, fs, executed, parsed, raised,
                   probe, twin>>

NextEngine == EngineChapter \/ EngineLoopEnd

SpecEngine == InitEngine /\ [][NextEngine]_vars

(***************************************************************************)
(* The launchers: cli/main.py with and without --offline, and              *)
(* test_audiobook_offline.py.  Each module has its own binding of the name *)
(* EdgeTTS: agents.audiobook_agent copies the provider module's binding    *)
(* when it is imported, and tts_node reads its module's binding when it    *)
(* runs.                                                                   *)
(***************************************************************************)

Launchers == {"cli", "cli_offline", "test_offline"}

InitLaunch ==
    /\ pc = "launch_import"
    /\ \E c \in AudiobookConfig :
         /\ c.pattern.valid /\ c.pattern.anchored
         /\ state = initial_state(c)
    /\ book = NoBook
    /\ tts = TtsLocals0
    /\ calls = <<>>
    /\ log = None
    /\ fs = {}
    /\ executed = <<>>
    /\ parsed = [exc |-> "None", book |-> NoBook]
    /\ raised = "None"
    /\ twin = None
    /\ \E launcher \in Launchers :
         probe = [launcher |-> launcher,
                  provider_EdgeTTS |-> "EdgeTTS",
                  agent_EdgeTTS |-> "unbound",
                  original_import |-> "unbound",
                  instantiated |-> "None"]

\* from agents.audiobook_agent import AudiobookAgent, which runs the agent
\* module's from modules.tts.edge_tts_provider import EdgeTTS.
LaunchImport ==
    /\ pc = "launch_import"
    /\ probe' = [probe EXCEPT !.agent_EdgeTTS = probe.provider_EdgeTTS]
    /\ pc' = "launch_patch"
    /\ UNCHANGED <<state, book, tts, calls, log, fs, executed, parsed, raised, twin>>

\* The rebinding each launcher does before it constructs the agent.
LaunchPatch ==
    /\ pc = "launch_patch"
    /\ probe' = IF probe.launcher = "cli_offline"
                THEN [probe EXCEPT !.original_import = probe.agent_EdgeTTS,
                                   !.agent_EdgeTTS = "Pyttsx3TTS"]
                ELSE IF probe.launcher = "test_offline"
                THEN [probe EXCEPT !.provider_EdgeTTS = "Pyttsx3TTS"]
                ELSE probe
    /\ pc' = "launch_construct"
    /\ UNCHANGED <<state, book, tts, calls, log, fs, executed, parsed, raised, twin>>

\* agent = AudiobookAgent(config): the workflow is built, no provider yet.
LaunchConstruct ==
    /\ pc = "launch_construct"
    /\ pc' = "launch_restore"
    /\ UNCHANGED <<state, book, tts, calls, log, fs, executed, parsed, raised,
                   probe, twin>>

\* agent_module.EdgeTTS = original_import, in the --offline branch only.
LaunchRestore ==
    /\ pc = "launch_restore"
    /\ probe' = IF probe.launcher = "cli_offline"
                THEN [probe EXCEPT !.agent_EdgeTTS = probe.original_import]
                ELSE probe
    /\ pc' = "launch_invoke"
    /\ UNCHANGED <<state, book, tts, calls, log, fs, executed, parsed, raised, twin>>

\* agent.workflow.invoke(initial_state) enters the workflow at parse.
LaunchInvoke ==
    /\ pc = "launch_invoke"
    /\ pc' = "parse"
    /\ UNCHANGED <<state, book, tts, calls, log, fs, executed, parsed, raised,
                   probe, twin>>

\* tts_node up to the loop: tts = EdgeTTS(...) calls the class the agent
\* module's name EdgeTTS is bound to at this moment.
LaunchTtsEnter ==
    /\ pc = "tts"
    /\ probe' = [probe EXCEPT !.instantiated = probe.agent_EdgeTTS]
    /\ \E env \in InitOutcomes :
         LET r == tts_enter(state, book, env, fs) IN
         /\ fs' = r.fs
         /\ IF r.exc # "None"
            THEN /\ pc' = "raised"
                 /\ raised' = r.exc
                 /\ UNCHANGED <<state, tts>>
            ELSE /\ raised' = raised
                 /\ state' = r.state
                 /\ IF r.entered
                    THEN pc' = "tts_loop" /\ tts' = [TtsLocals0 EXCEPT !.idx = 1]
                    ELSE pc' = "done" /\ tts' = tts
    /\ executed' = Append(executed, "tts")
    /\ UNCHANGED <<book, calls, log, parsed, twin>>

NextLaunch ==
    \/ LaunchImport \/ LaunchPatch \/ LaunchConstruct \/ LaunchRestore
    \/ LaunchInvoke
    \/ ParseNode \/ SplitNode \/ LaunchTtsEnter \/ TtsChapter \/ TtsFinish

SpecLaunch == InitLaunch /\ [][NextLaunch]_vars

(***************************************************************************)
(* Vocabulary of the properties                                            *)
(***************************************************************************)

StageOrder == <<"parse", "split", "tts">>

IsPrefix(p, q) == Len(p) <= Len(q) /\ SubSeq(q, 1, Len(p)) = p

\* The severity an error string carries in its prefix.
IsFatal(err) == (~err.none) /\ Len(err.s) >= 1 /\ err.s[1] = "fatal"

IsWarning(err) == (~err.none) /\ Len(err.s) >= 1 /\ err.s[1] = "warning"

Blank(text) == \A k \in 1..Len(text) : text[k] \in Whitespace

\* The workflow has reached END.
Terminal == pc = "done"

\* The chapter loop of tts_node has run to its end.
LoopDone == Terminal /\ executed = StageOrder /\ tts.idx >= 1

Failed(k) == calls[k].exc # "None"

FailedCalls == { k \in 1..Len(calls) : Failed(k) }

\* The numbers of the chapters whose provider call raised, in call order.
FailedNumbers ==
    LET sel == SelectSeq(calls, LAMBDA c : c.exc # "None")
    IN [k \in 1..Len(sel) |-> sel[k].number]

\* The chapters segmentation produces for the parsed text.
Segmented == ChapterSplitter_split(book, state.config.pattern)

(***************************************************************************)
(* C1..C10: the pipeline controller                                        *)
(***************************************************************************)

\* C1: the nodes run only in the order parse, split, tts, each at most once;
\* once the state's error is fatal no further node runs and the recorded
\* error never changes.
C1_StagesInOrderAndFatalStops ==
    [][ /\ IsPrefix(executed', StageOrder)
        /\ IsFatal(state.error) =>
             (executed' = executed /\ state'.error = state.error) ]_vars

C1_Witness ==
    Terminal /\ IsFatal(state.error) /\ executed = <<"parse", "split">>

\* C2: if m of the n chapters fail, 0 < m < n, the terminal state's error is
\* the warning "<m> chapters failed: [<numbers>]" and n - m chapters survive.
C2_PartialFailureIsWarning ==
    (LoopDone /\ 0 < Cardinality(FailedCalls)
              /\ Cardinality(FailedCalls) < Len(calls))
    => /\ IsWarning(state.error)
       /\ state.error = warning_msg(FailedNumbers)
       /\ Len(book.chapters) = Len(calls) - Cardinality(FailedCalls)

\* C3 as stated: if all n >= 1 syntheses fail, the terminal error is fatal
\* and the Document's chapter sequence is empty.
C3_AllFailedEmptiesChapters ==
    (LoopDone /\ Len(calls) >= 1 /\ Cardinality(FailedCalls) = Len(calls))
    => (IsFatal(state.error) /\ book.chapters = <<>>)

\* C3 amended: if all n >= 1 syntheses fail, the terminal error is fatal and
\* the Document still holds all n chapters, none with an audio reference.
C3_AllFailedIsFatal ==
    (LoopDone /\ Len(calls) >= 1 /\ Cardinality(FailedCalls) = Len(calls))
    => /\ IsFatal(state.error)
       /\ Len(book.chapters) = Len(calls)
       /\ \A k \in 1..Len(book.chapters) :
            /\ book.chapters[k].number = calls[k].number
            /\ book.chapters[k].audio_path = None

C3_Witness ==
    LoopDone /\ Len(calls) >= 2 /\ Cardinality(FailedCalls) = Len(calls)
             /\ \E k \in 1..Len(calls) : ~Blank(calls[k].text)

\* C4: a run that ends without a fatal error has a Document with at least
\* one chapter, and every chapter of it has a non-empty audio reference.
C4_SuccessHasOnlyAudioChapters ==
    (Terminal /\ ~IsFatal(state.error))
    => /\ state.book # None
       /\ Len(book.chapters) >= 1
       /\ \A k \in 1..Len(book.chapters) :
            /\ ~book.chapters[k].audio_path.none
            /\ Len(book.chapters[k].audio_path.s) > 0

C4_Witness ==
    Terminal /\ ~IsFatal(state.error) /\ Len(tts.failed_chapters) >= 1
             /\ Len(book.chapters) >= 2

\* C5 as stated: every terminal state carries a Document.
C5_TerminalHasDocument == Terminal => state.book # None

\* C5 amended: every terminal state carries an error classification; it
\* carries a Document exactly when the parse stage succeeded, and book is
\* None when the run ended by a fatal failure in parse.
C5_TerminalHasDocumentUnlessParseFailed ==
    Terminal
    => /\ state.error = None \/ IsFatal(state.error) \/ IsWarning(state.error)
       /\ (state.book = None) <=> (executed = <<"parse">>)
       /\ executed = <<"parse">> => IsFatal(state.error)
       /\ state.book # None => (book.alloc /\ book.raw_text = parsed.book.raw_text)

C5_Witness ==
    Terminal /\ executed = <<"parse">> /\ parsed.exc = "None" /\ state.book = None

\* C6: the provider is called once for every chapter, in document order,
\* whichever earlier chapters failed, and the failed list holds exactly the
\* numbers of the chapters whose call raised.
C6_EveryChapterAttempted ==
    (executed = StageOrder /\ tts.idx >= 1)
    => /\ Segmented.exc = "None"
       /\ Len(calls) <= Len(Segmented.chapters)
       /\ \A k \in 1..Len(calls) :
            /\ calls[k].number = Segmented.chapters[k].number
            /\ calls[k].text = Segmented.chapters[k].text
       /\ tts.failed_chapters = FailedNumbers
       /\ pc = "tts_loop" => Len(calls) = tts.idx - 1
       /\ pc # "tts_loop" => Len(calls) = Len(Segmented.chapters)

C6_Witness ==
    LoopDone /\ Len(calls) = 3 /\ Failed(1) /\ ~Failed(2) /\ Failed(3)

C8_AfterParse ==
    executed # <<>>
    => IF parsed.exc # "None" \/ Blank(parsed.book.raw_text)
       THEN /\ IsFatal(state.error)
            /\ executed = <<"parse">>
            /\ Terminal
       ELSE /\ state.book = BookRef
            /\ book.alloc
            /\ book.title = parsed.book.title
            /\ book.raw_text = parsed.book.raw_text
            /\ executed = <<"parse">> => (pc = "split" /\ state.error = None)
            /\ Len(executed) >= 2 => executed[2] = "split"

C8_Witness ==
    executed = <<"parse">> /\ Terminal /\ parsed.exc = "None"
        /\ Blank(parsed.book.raw_text)

\* C9: after split, an exception from segmentation gives a fatal error, tts
\* never runs and the chapter sequence is as before the stage; otherwise the
\* error is None, the Document holds the produced chapters and tts runs next.
C9_AfterSplit ==
    Len(executed) >= 2
    => IF Segmented.exc # "None"
       THEN /\ IsFatal(state.error)
            /\ executed = <<"parse", "split">>
            /\ Terminal
            /\ book.chapters = <<>>
       ELSE /\ executed = <<"parse", "split">> =>
                 /\ pc = "tts"
                 /\ state.error = None
                 /\ book.chapters = Segmented.chapters
            /\ Len(executed) = 2 => ~Terminal

C9_Witness ==
    Terminal /\ executed = <<"parse", "split">> /\ Segmented.exc = "re.error"
        /\ book.alloc /\ book.chapters = <<>>

\* C10: if all n syntheses succeed the terminal error is None and the
\* Document holds all n chapters in their original order, each with the
\* audio reference the provider returned for it.
C10_AllSucceed ==
    (LoopDone /\ Len(calls) >= 1 /\ FailedCalls = {})
    => /\ state.error = None
       /\ state.book = BookRef
       /\ Len(book.chapters) = Len(Segmented.chapters)
       /\ \A k \in 1..Len(book.chapters) :
            /\ book.chapters[k] =
                 [Segmented.chapters[k] EXCEPT !.audio_path = calls[k].ret]
            /\ Truthy(calls[k].ret)
            /\ calls[k].ret = Str(audio_path(state, Segmented.chapters[k]))

C10_Witness ==
    LoopDone /\ Len(calls) = 3 /\ FailedCalls = {} /\ state.error = None

(***************************************************************************)
(* C11..C14: segmentation                                                  *)
(***************************************************************************)

\* The matches of the configured pattern in the book's raw text.
Matches == finditer(state.config.pattern, book.raw_text, 0)

\* No offset of the text starts a match.
NoMatch ==
    \A pos \in 0..Len(book.raw_text) :
        ~MatchAt(state.config.pattern, book.raw_text, pos)

\* m lists every leftmost non-overlapping match, left to right.
IsMatchList(m) ==
    LET pattern == state.config.pattern
        text == book.raw_text
        from(i) == IF i = 1 THEN 0 ELSE m[i - 1].end
    IN /\ \A i \in 1..Len(m) :
            /\ MatchAt(pattern, text, m[i].start)
            /\ m[i].end = m[i].start + Len(pattern.lit)
            /\ from(i) <= m[i].start
            /\ \A pos \in from(i)..(m[i].start - 1) : ~MatchAt(pattern, text, pos)
       /\ \A pos \in from(Len(m) + 1)..Len(text) : ~MatchAt(pattern, text, pos)

\* C11: for a non-blank text in which the pattern has no match, split yields
\* one chapter, number 1, title "Full book", whose text is the trimmed input.
C11_NoMatchGivesTrimmedFullBook ==
    (pc = "split_returned" /\ state.config.pattern.valid
        /\ ~Blank(book.raw_text) /\ NoMatch)
    => /\ Len(book.chapters) = 1
       /\ book.chapters[1].number = 1
       /\ book.chapters[1].title = <<"Full book">>
       /\ book.chapters[1].text = Strip(book.raw_text)

\* C12: with k >= 1 matches split yields k chapters numbered 1..k in match
\* order; chapter i has the trimmed text of match i as title and the trimmed
\* span from the end of match i to the start of match i+1 (the end of the
\* text for i = k) as body, so the text before the first match is in no chapter.
C12_ChaptersFollowMatches ==
    (pc = "split_returned" /\ Len(Matches) >= 1)
    => /\ IsMatchList(Matches)
       /\ Len(book.chapters) = Len(Matches)
       /\ \A i \in 1..Len(Matches) :
            LET body_end == IF i < Len(Matches) THEN Matches[i + 1].start
                            ELSE Len(book.raw_text)
            IN /\ book.chapters[i].number = i
               /\ book.chapters[i].title =
                    Strip(Slice(book.raw_text, Matches[i].start, Matches[i].end))
               /\ book.chapters[i].text =
                    Strip(Slice(book.raw_text, Matches[i].end, body_end))
               /\ book.chapters[i].audio_path = None

C12_Witness ==
    /\ pc = "split_returned"
    /\ Len(book.chapters) = 2
    /\ Matches[1].start > 0
    /\ ~Blank(Slice(book.raw_text, 0, Matches[1].start))
    /\ \A i \in 1..2 : book.chapters[i].text = <<"a">>

\* C13: split fails with its no-content error exactly when the text is empty
\* or whitespace only.
C13_NoContentIffBlank ==
    (pc \in {"split_returned", "split_raised"} /\ state.config.pattern.valid)
    => /\ (raised = "ValueError") <=> Blank(book.raw_text)
       /\ Blank(book.raw_text) => book.chapters = <<>>

\* C14: a second split_and_update_book on a split Document leaves its
\* chapter sequence equal to the result of the first.
C14_SecondSplitChangesNothing ==
    [][(pc = "split_returned" /\ pc' = "split_twice")
         => book'.chapters = book.chapters]_vars

C14_Witness == pc = "split_twice" /\ Len(book.chapters) >= 2

(***************************************************************************)
(* C15..C17: chapter numbers and audio references along a pipeline run     *)
(***************************************************************************)

HasChapters == state.book # None /\ book.chapters # <<>>

\* tts_node has removed the failed chapters from the Document.
FailedRemoved ==
    Terminal /\ ~IsFatal(state.error) /\ tts.failed_chapters # <<>>

NumbersOf(chapters) == { chapters[k].number : k \in 1..Len(chapters) }

SetOf(seq) == { seq[k] : k \in 1..Len(seq) }

\* C15 as stated: whenever the Document has chapters, their numbers are
\* 1, 2, ... in document order, also after failed chapters were removed.
C15_NumbersContiguous ==
    HasChapters => \A k \in 1..Len(book.chapters) : book.chapters[k].number = k

\* C15 amended: chapter numbers are strictly increasing in document order;
\* they are 1, 2, ... until failed chapters are removed, and the chapters
\* that remain keep their numbers: 1..n without the failed ones.
C15_NumbersContiguousUntilRemoval ==
    HasChapters
    => /\ \A k \in 1..(Len(book.chapters) - 1) :
            book.chapters[k].number < book.chapters[k + 1].number
       /\ ~FailedRemoved =>
            \A k \in 1..Len(book.chapters) : book.chapters[k].number = k
       /\ FailedRemoved =>
            NumbersOf(book.chapters) = (1..Len(calls)) \ SetOf(tts.failed_chapters)

C15_Witness ==
    /\ HasChapters /\ FailedRemoved
    /\ Len(book.chapters) = 2
    /\ book.chapters[1].number = 1
    /\ book.chapters[2].number = 3

\* C16: a chapter carries an audio reference exactly when a provider call
\* for that chapter has returned, and the reference is what the call
\* returned; the chapters split produced carry none.
C16_AudioOnlyFromSuccessfulCall ==
    HasChapters
    => \A k \in 1..Len(book.chapters) :
         LET ch == book.chapters[k]
             returned == { j \in 1..Len(calls) :
                             calls[j].number = ch.number /\ calls[j].exc = "None" }
         IN /\ (ch.audio_path # None) <=> (returned # {})
            /\ \A j \in returned :
                 ch.audio_path = calls[j].ret /\ Truthy(calls[j].ret)

C16_Witness ==
    /\ pc = "tts_loop" /\ Len(book.chapters) = 3 /\ Len(calls) = 2
    /\ Failed(1) /\ ~Failed(2)
    /\ book.chapters[1].audio_path = None
    /\ book.chapters[2].audio_path # None
    /\ book.chapters[3].audio_path = None

\* C17: in a terminal state with a fatal error no chapter of the state's
\* Document carries an audio reference.
C17_FatalHasNoAudio ==
    (Terminal /\ IsFatal(state.error) /\ state.book # None)
    => \A k \in 1..Len(book.chapters) : book.chapters[k].audio_path = None

C17_Witness ==
    /\ Terminal /\ IsFatal(state.error) /\ executed = StageOrder
    /\ Len(book.chapters) = 3 /\ Len(calls) = 3
    /\ \A k \in 1..3 : ~Blank(calls[k].text) /\ Failed(k)

(***************************************************************************)
(* C18: chapter isolation                                                  *)
(***************************************************************************)

\* The audio reference chapter number n has in a Document, None when the
\* chapter is not in it.
AudioOf(bk, n) ==
    LET at == { k \in 1..Len(bk.chapters) : bk.chapters[k].number = n }
    IN IF at = {} THEN None ELSE bk.chapters[CHOOSE k \in at : TRUE].audio_path

\* C18: in two runs over the same chapters that differ only in whether the
\* call for chapter flip succeeds, every other chapter is attempted in both
\* runs with its own text and the same destination, and ends with the same
\* audio reference.
C18_OtherChaptersUnaffected ==
    /\ Len(calls) = Len(twin.calls)
    /\ (pc = "done") => (twin.pc = "done" /\ Len(calls) = Len(twin.chapters))
    /\ \A j \in 1..Len(twin.chapters) :
         j # twin.flip
         => /\ AudioOf(book, j) = AudioOf(twin.book, j)
            /\ j <= Len(calls)
               => /\ calls[j].number = j /\ twin.calls[j].number = j
                  /\ calls[j].text = twin.chapters[j].text
                  /\ twin.calls[j].text = twin.chapters[j].text
                  /\ calls[j].path = twin.calls[j].path
                  /\ calls[j].ret = twin.calls[j].ret

C18_Witness ==
    /\ pc = "done" /\ twin.pc = "done"
    /\ Len(twin.chapters) = 3 /\ twin.flip = 2
    /\ calls[2].exc = "None" /\ twin.calls[2].exc = "RuntimeError"
    /\ \A j \in {1, 3} : calls[j].exc = "None" /\ twin.calls[j].exc = "None"
    /\ Len(book.chapters) = 3 /\ Len(twin.book.chapters) = 2
    /\ AudioOf(twin.book, 3) # None

(***************************************************************************)
(* C19: destinations                                                       *)
(***************************************************************************)

DigitChars == { ToString(d) : d \in 0..9 }

DigitValue(c) == CHOOSE d \in 0..9 : ToString(d) = c

RECURSIVE DecimalValue(_)
DecimalValue(ds) ==
    IF ds = <<>> THEN 0
    ELSE 10 * DecimalValue(SubSeq(ds, 1, Len(ds) - 1)) + DigitValue(ds[Len(ds)])

\* path is <output>/chapters/chapter_<digits>.<format> for some digits.
DestinationDigits(path) == SubSeq(path, 6, Len(path) - 2)

\* C19: the destination of chapter k is <output>/chapters/chapter_NN.<format>
\* where NN is k in decimal, zero-padded to two digits and never truncated,
\* and no two chapters of one run have the same destination.
C19_DestinationsDistinct ==
    pc = "path_done"
    => /\ \A k \in 1..Len(probe.paths) :
            LET path == probe.paths[k]
                ds == DestinationDigits(path)
            IN /\ SubSeq(path, 1, 5) =
                    <<state.output_dir, "/", "chapters", "/", "chapter_">>
               /\ SubSeq(path, Len(path) - 1, Len(path)) = <<".", state.config.format>>
               /\ Len(ds) >= 2
               /\ \A d \in 1..Len(ds) : ds[d] \in DigitChars
               /\ DecimalValue(ds) = book.chapters[k].number
               /\ Len(ds) > 2 => ds[1] # "0"
       /\ \A j, k \in 1..Len(probe.paths) :
            j # k => probe.paths[j] # probe.paths[k]

C19_Witness ==
    /\ pc = "path_done"
    /\ Len(probe.paths) >= 101
    /\ DestinationDigits(probe.paths[1]) = <<"0", "1">>
    /\ DestinationDigits(probe.paths[101]) = <<"1", "0", "1">>

(***************************************************************************)
(* C20: what a provider's return guarantees                                *)
(***************************************************************************)

\* C20: when generate_audio of any provider has returned, a file with data
\* exists at the path it returned; in every other case it has raised.
C20_ReturnMeansFileWithData ==
    /\ pc = "provider_returned"
       => /\ raised = "None"
          /\ Truthy(probe.ret)
          /\ Entry(probe.ret.s, "data") \in fs
    /\ pc = "provider_raised"
       => raised \in ExceptionTypes /\ probe.ret = None

\* Pyttsx3TTS asked for a format it does not write returns the .mp3 path it
\* wrote to, next to an empty file an earlier run left at the path asked for.
C20_Witness ==
    /\ pc = "provider_returned"
    /\ probe.provider = "Pyttsx3TTS"
    /\ Suffix(probe.output_path) = "ogg"
    /\ probe.ret = Str(with_suffix(probe.output_path, <<".", "mp3">>))
    /\ Entry(probe.output_path, "empty") \in fs

(***************************************************************************)
(* C21, C30: what a failed generate_audio call leaves behind               *)
(***************************************************************************)

\* The files (not directories) a call added to or changed in the output
\* location.
LeftByCall == { e \in fs \ probe.before : e.kind # "dir" }

\* C21: when generate_audio of any provider has raised, no temporary file
\* and no partial or empty destination file of that call remains.
C21_FailureLeavesNoArtifact ==
    pc = "provider_raised" => LeftByCall = {}

\* C30: generate_audio of any provider called with empty or whitespace-only
\* text raises ValueError with the file system as it was and without having
\* initialized an engine, model or client.
C30_NoTextRaisesBeforeAnyEffect ==
    (pc \in {"provider_returned", "provider_raised"} /\ Blank(probe.chapter.text))
    => /\ raised = "ValueError"
       /\ fs = probe.before
       /\ ~probe.engine

C30_Witness ==
    /\ pc = "provider_raised"
    /\ probe.provider = "Pyttsx3TTS"
    /\ probe.chapter.text = <<"\n">>
    /\ raised = "ValueError"
    /\ fs = {}

(***************************************************************************)
(* C22, C23: what a stage changes                                          *)
(***************************************************************************)

\* C22: a stage leaves the Document its input state refers to as it was.
C22_StagesDoNotModifyInput ==
    [][state.book # None => book' = book]_vars

\* The chapters of new are chapters of old, in the same order, with their
\* number, title and text.
KeepsChapters(old, new) ==
    /\ \A k \in 1..Len(new) :
         \E j \in 1..Len(old) :
            /\ old[j].number = new[k].number
            /\ old[j].title = new[k].title
            /\ old[j].text = new[k].text
    /\ \A k \in 1..(Len(new) - 1) : new[k].number < new[k + 1].number

\* C23: once parse has created the Document its title, author and raw text
\* stay as they are; split changes the chapter sequence only; tts changes
\* audio references and drops chapters, and leaves the number, title and
\* text of every chapter alone.
C23_FrameOfDocument ==
    [][book.alloc
       => /\ book'.alloc
          /\ book'.title = book.title
          /\ book'.author = book.author
          /\ book'.raw_text = book.raw_text
          /\ pc \in {"tts", "tts_loop", "tts_post"}
             => KeepsChapters(book.chapters, book'.chapters)]_vars

C23_Witness ==
    /\ Terminal /\ FailedRemoved
    /\ Len(calls) = 3 /\ Failed(1)
    /\ Len(book.chapters) = 2
    /\ book.chapters[1].number = 2
    /\ book.raw_text # <<>>

(***************************************************************************)
(* C24, C25: the provider an offline launcher gets                         *)
(***************************************************************************)

\* tts_node has constructed, or tried to construct, its provider.
ProviderChosen == probe.instantiated # "None"

\* C24: run with --offline, the provider tts_node instantiates is
\* Pyttsx3TTS.
C24_OfflineCliGetsPyttsx3 ==
    (probe.launcher = "cli_offline" /\ ProviderChosen)
    => probe.instantiated = "Pyttsx3TTS"

\* C25: in the offline test script, the provider tts_node instantiates is
\* Pyttsx3TTS.
C25_OfflineTestGetsPyttsx3 ==
    (probe.launcher = "test_offline" /\ ProviderChosen)
    => probe.instantiated = "Pyttsx3TTS"

(***************************************************************************)
(* C26..C29: the synthesis loop                                            *)
(***************************************************************************)

\* C26: the chapters left after removal keep the number, title and text
\* segmentation gave them, numbers increase along the sequence, and
\* get_chapter(k) finds chapter k exactly when chapter k is in the Document.
C26_NoRenumbering ==
    HasChapters
    => /\ \A k \in 1..(Len(book.chapters) - 1) :
            book.chapters[k].number < book.chapters[k + 1].number
       /\ KeepsChapters(Segmented.chapters, book.chapters)
       /\ \A n \in 0..(MaxLen + 1) :
            LET r == Book_get_chapter(book, n)
            IN /\ r.found <=> n \in NumbersOf(book.chapters)
               /\ r.found => r.chapter.number = n

C26_Witness ==
    /\ Terminal /\ FailedRemoved
    /\ NumbersOf(book.chapters) = {1, 3}
    /\ ~Book_get_chapter(book, 2).found
    /\ Book_get_chapter(book, 3).found

InLoop == pc \in {"tts_loop", "tts_post"} \/ LoopDone

WithAudio == { k \in 1..Len(book.chapters) : book.chapters[k].audio_path # None }

\* C27: after every iteration successful_chapters + len(failed_chapters) is
\* the number of chapters attempted, failed_chapters holds the numbers of
\* the failed chapters once each in ascending order, and when the loop is
\* left successful_chapters is the number of chapters with an audio
\* reference.
C27_LoopCounters ==
    InLoop
    => /\ tts.successful_chapters + Len(tts.failed_chapters) = Len(calls)
       /\ tts.idx = Len(calls) + 1
       /\ tts.failed_chapters = FailedNumbers
       /\ \A k \in 1..(Len(tts.failed_chapters) - 1) :
            tts.failed_chapters[k] < tts.failed_chapters[k + 1]
       /\ tts.successful_chapters = Cardinality(WithAudio)

C27_Witness ==
    /\ pc = "tts_loop" /\ tts.idx > Len(book.chapters)
    /\ tts.successful_chapters = 1
    /\ tts.failed_chapters = <<1, 3>>

\* C28: a chapter whose text is blank fails synthesis with ValueError, is in
\* no Document of a non-fatal terminal state, and a run whose chapters are
\* all blank ends fatal.
C28_BlankChapterFails ==
    /\ \A k \in 1..Len(calls) :
         Blank(calls[k].text) => calls[k].exc = "ValueError"
    /\ (Terminal /\ ~IsFatal(state.error) /\ state.book # None)
       => \A k \in 1..Len(book.chapters) : ~Blank(book.chapters[k].text)
    /\ (LoopDone /\ \A k \in 1..Len(calls) : Blank(calls[k].text))
       => IsFatal(state.error)

C28_Witness ==
    /\ Terminal /\ ~IsFatal(state.error)
    /\ Len(calls) = 2
    /\ Blank(calls[1].text) /\ calls[1].exc = "ValueError"
    /\ ~Failed(2)
    /\ NumbersOf(book.chapters) = {2}

\* C29: when the provider cannot be constructed or the chapters directory
\* cannot be made, tts ends fatal with no provider call made and the
\* Document as it was; the loop is entered only with the directory made.
C29_InitFailureIsFatal ==
    [][pc = "tts"
       => /\ pc' # "tts_loop"
             => /\ pc' = "done"
                /\ IsFatal(state'.error)
                /\ calls' = <<>>
                /\ book' = book
          /\ pc' = "tts_loop"
             => Entry(chapters_dir(state), "dir") \in fs']_vars

C29_Witness ==
    /\ Terminal /\ executed = StageOrder
    /\ state.error = Str(<<"fatal", ": TTS initialization failed - ", "OSError">>)
    /\ calls = <<>>
    /\ Len(book.chapters) = 2
    /\ \A k \in 1..2 : book.chapters[k].audio_path = None

(***************************************************************************)
(* C31: EdgeTTS's temporary file                                           *)
(***************************************************************************)

\* C31: when EdgeTTS.generate_audio has returned or raised for a chapter
\* with text, whatever the format, no file is left at
\* <destination stem>.temp.mp3.
C31_EdgeTempFileGone ==
    (/\ pc \in {"provider_returned", "provider_raised"}
     /\ probe.provider = "EdgeTTS"
     /\ ~Blank(probe.chapter.text))
    => ~Exists(fs, with_suffix(probe.output_path, <<".", "temp", ".", "mp3">>))

\* The conversion ran on the temporary file and left an empty destination.
C31_Witness ==
    /\ pc = "provider_raised"
    /\ probe.provider = "EdgeTTS"
    /\ Suffix(probe.output_path) = "wav"
    /\ probe.before = {}
    /\ Entry(probe.output_path, "empty") \in fs
    /\ ~Exists(fs, with_suffix(probe.output_path, <<".", "temp", ".", "mp3">>))

(***************************************************************************)
(* C33, C34: side effects and termination of a pipeline run                *)
(***************************************************************************)

(***************************************************************************)
(* C32                                                                     *)
(***************************************************************************)

\* C32: Pyttsx3TTS never synthesizes with an engine whose initialization
\* did not complete: no generate_audio call hands its text to an engine that
\* an earlier call's _initialize_engine created but failed to configure.
C32_NeverUsesUnconfiguredEngine ==
    \A k \in 1..Len(calls) :
        probe.provider = "Pyttsx3TTS" => calls[k].used # "created"

\* C33: parse and split create nothing under the output location, and no
\* step of a run changes the state's book_path, output_dir or config.
C33_OutputOnlyFromTts ==
    [][/\ state'.book_path = state.book_path
       /\ state'.output_dir = state.output_dir
       /\ state'.config = state.config
       /\ pc \in {"parse", "split"} => fs' = fs]_vars

C33_Witness ==
    /\ Terminal /\ IsFatal(state.error)
    /\ executed = <<"parse", "split">>
    /\ state.book # None
    /\ fs = {}

\* The points of the workflow a run at pc has still to pass, this one included.
PointsLeft ==
    IF pc = "parse" THEN 5
    ELSE IF pc = "split" THEN 4
    ELSE IF pc = "tts" THEN 3
    ELSE IF pc = "tts_loop" THEN 2
    ELSE IF pc = "tts_post" THEN 1
    ELSE 0

\* The chapters the loop of tts_node has still to visit.
ChaptersLeft ==
    IF pc = "tts_loop" THEN Len(book.chapters) + 1 - tts.idx ELSE 0

\* The run is at a node the workflow engine calls next: the node returns a
\* state or an error message for every input.
AtNode == pc \in {"parse", "split", "tts"}

\* The run is inside tts_node, at a chapter of the loop or after the loop.
AtLoop ==
    \/ pc = "tts_loop" /\ tts.idx \in 1..(Len(book.chapters) + 1)
    \/ pc = "tts_post"

====
